---- MODULE Spec2Model ----
(***************************************************************************)
(* json-autotranslate: the translation synchronisation run of src/index.ts *)
(* (translate) with the loader of src/util/file-system.ts and the array    *)
(* codec of src/util/array-as-string.ts.                                   *)
(*                                                                         *)
(* A string is a sequence of tokens; the tokens ".", " " and sepKey are the *)
(* characters the code looks for.  A JSON document is the ordered sequence *)
(* of its entries [k, v] (JavaScript objects enumerate in insertion order).*)
(* JSON.stringify followed by require() of the written file gives back the *)
(* same document for the values modelled here (strings, arrays of strings, *)
(* objects), so the disk holds documents.                                  *)
(* Arrays occur at the top level of a document only, nested objects are   *)
(* not empty, and every key holds at least one token other than ".".      *)
(* The provider (./services) is modelled from its contract: it answers    *)
(* every submitted key and leaves the separator in place.                 *)
(***************************************************************************)
EXTENDS Naturals, Sequences, FiniteSets, TLC

\* ------------------------------------------------------------------ bounds
MaxKeys == 2
MaxRuns == 2

\* ------------------------------------------------------------- JSON values
\* array-as-string.ts:1  const sepKey = ' <sep /> '
sepKey == "<sep />"

Str(s) == [t |-> "str", s |-> s, a |-> <<>>, o |-> <<>>]
Arr(a) == [t |-> "arr", s |-> <<>>, a |-> a, o |-> <<>>]
Obj(o) == [t |-> "obj", s |-> <<>>, a |-> <<>>, o |-> o]

Entry(k, v) == [k |-> k, v |-> v]

\* Object.keys(obj)
Keys(doc) == [i \in DOMAIN doc |-> doc[i].k]

\* Array.prototype.includes / String.prototype.includes on a token
Includes(seq, x) == \E i \in DOMAIN seq : seq[i] = x

KeySet(doc) == {doc[i].k : i \in DOMAIN doc}

\* obj[key]
Get(doc, k) == doc[CHOOSE i \in DOMAIN doc : doc[i].k = k].v

\* obj[key] = v : an existing key keeps its place, a new key is appended
Put(doc, k, v) ==
  IF k \in KeySet(doc)
  THEN [i \in DOMAIN doc |-> IF doc[i].k = k THEN Entry(k, v) ELSE doc[i]]
  ELSE Append(doc, Entry(k, v))

\* Array.prototype.filter with a predicate on the element
RECURSIVE FilterSeq(_, _)
FilterSeq(seq, keep) ==
  IF seq = <<>> THEN <<>>
  ELSE IF Head(seq) \in keep
       THEN <<Head(seq)>> \o FilterSeq(Tail(seq), keep)
       ELSE FilterSeq(Tail(seq), keep)

\* Array.prototype.join(sep) on an array of strings
RECURSIVE Join(_, _)
Join(a, sep) ==
  IF a = <<>> THEN <<>>
  ELSE IF Len(a) = 1 THEN a[1]
  ELSE a[1] \o <<sep>> \o Join(Tail(a), sep)

\* String.prototype.split(sep): the pieces between the occurrences of sep
RECURSIVE Split(_, _)
Split(s, sep) ==
  IF ~Includes(s, sep) THEN <<s>>
  ELSE LET i == CHOOSE j \in DOMAIN s :
                  s[j] = sep /\ \A h \in 1..(j - 1) : s[h] # sep
       IN <<SubSeq(s, 1, i - 1)>> \o Split(SubSeq(s, i + 1, Len(s)), sep)

\* ------------------------------------------------- array-as-string.ts
\* In place: every top-level array value becomes its elements joined by sepKey.
arrayToString(obj) ==
  [i \in DOMAIN obj |->
     IF obj[i].v.t = "arr"
     THEN Entry(obj[i].k, Str(Join(obj[i].v.a, sepKey)))
     ELSE obj[i]]

\* Every top-level string holding sepKey becomes the array of its pieces.
stringToArray(obj) ==
  [i \in DOMAIN obj |->
     LET splitted == Split(obj[i].v.s, sepKey)
     IN Entry(obj[i].k, IF Len(splitted) = 1 THEN Str(splitted[1])
                        ELSE Arr(splitted))]

\* --------------------------------------------------------- flattenjs
\* flatten.convert: result[path] = leaf for every leaf, the path being the
\* dot-joined keys that lead to it; a path met twice keeps its last leaf.
RECURSIVE FlattenInto(_, _, _)
FlattenInto(obj, prop, result) ==
  IF obj = <<>> THEN result
  ELSE LET e == Head(obj)
           p == IF prop = <<>> THEN e.k ELSE prop \o <<".">> \o e.k
       IN FlattenInto(Tail(obj), prop,
                      IF e.v.t = "obj" THEN FlattenInto(e.v.o, p, result)
                      ELSE Put(result, p, e.v))

FlattenConvert(obj) == FlattenInto(obj, <<>>, <<>>)

\* The path segments the regular expression of flatten.undo finds in a key:
\* the maximal runs of tokens other than ".".
RECURSIVE Segs(_)
Segs(p) ==
  IF p = <<>> THEN <<>>
  ELSE IF Head(p) = "." THEN Segs(Tail(p))
  ELSE LET n == IF Includes(p, ".")
                THEN (CHOOSE j \in DOMAIN p :
                        p[j] = "." /\ \A h \in 1..(j - 1) : p[h] # ".") - 1
                ELSE Len(p)
       IN <<SubSeq(p, 1, n)>> \o Segs(SubSeq(p, n + 1, Len(p)))

\* cur = cur[prop] || (cur[prop] = {}) along the segments, then cur[prop] = v.
\* A non-empty string or an array met on the way is kept: a property set on
\* it does not reach the serialised document.
RECURSIVE SetPath(_, _, _)
SetPath(doc, segs, v) ==
  IF Len(segs) = 1 THEN Put(doc, segs[1], v)
  ELSE LET k == segs[1]
           old == IF k \in KeySet(doc) THEN Get(doc, k) ELSE Obj(<<>>)
           cur == IF old.t = "str" /\ old.s = <<>> THEN Obj(<<>>) ELSE old
       IN IF cur.t = "obj"
          THEN Put(doc, k, Obj(SetPath(cur.o, Tail(segs), v)))
          ELSE doc

RECURSIVE UndoFrom(_, _)
UndoFrom(data, acc) ==
  IF data = <<>> THEN acc
  ELSE UndoFrom(Tail(data), SetPath(acc, Segs(Head(data).k), Head(data).v))

\* flatten.undo
FlattenUndo(data) == UndoFrom(data, <<>>)

\* ---------------------------------------------------- file-system.ts
detectFileType(json) ==
  IF \E i \in DOMAIN json :
       /\ json[i].v.t = "str"
       /\ (Includes(json[i].k, ".") \/ Includes(json[i].k, " "))
  THEN "natural" ELSE "key-based"

\* One require(path): the module cache returns the object of an earlier
\* require of the same path, whatever the file holds by now (file-system.ts:31).
Require(c, d, lang, f) ==
  IF f \in DOMAIN c[lang] THEN c[lang][f] ELSE d[lang][f]

\* fs.readdirSync(directory).filter(f => f.endsWith('.json')), in name order
FileOrder == <<"f1", "f2", "f3">>
ReadDir(d, lang) == FilterSeq(FileOrder, DOMAIN d[lang])

\* const type = fileType === 'auto' ? detectFileType(json) : fileType
LoadedType(json, fileType) ==
  IF fileType = "auto" THEN detectFileType(json) ELSE fileType

\* The cached object of lang/f after loadTranslations has gone over it: for a
\* key-based file arrayToString has rewritten it in place (file-system.ts:40).
LoadedObject(json, fileType) ==
  IF LoadedType(json, fileType) = "key-based" THEN arrayToString(json) ELSE json

\* The module cache after loadTranslations(directory of lang, fileType).
CacheAfterLoad(c, d, lang, fileType) ==
  [c EXCEPT ![lang] =
     [f \in DOMAIN c[lang] \cup DOMAIN d[lang] |->
        IF f \in DOMAIN d[lang]
        THEN LoadedObject(Require(c, d, lang, f), fileType)
        ELSE c[lang][f]]]

\* The records loadTranslations returns.  originalContent is the cached object
\* itself; content is a new flat mapping for a key-based file and the cached
\* object again for a natural one (alias).
loadTranslations(c, d, lang, fileType) ==
  LET names == ReadDir(d, lang)
  IN [i \in DOMAIN names |->
        LET json == Require(c, d, lang, names[i])
            type == LoadedType(json, fileType)
        IN [name |-> names[i],
            type |-> type,
            alias |-> (type # "key-based"),
            content |-> IF type = "key-based"
                        THEN FlattenConvert(arrayToString(json))
                        ELSE <<>>]]

\* file.content and file.originalContent of a record loaded from lang
ContentOf(c, lang, file) ==
  IF file.alias THEN c[lang][file.name] ELSE file.content

OriginalContentOf(c, lang, file) == c[lang][file.name]

\* Object.keys(file.content).reduce((acc, cur) => ({...acc, [cur]: cur}), {})
RECURSIVE FixedFrom(_, _)
FixedFrom(keys, acc) ==
  IF keys = <<>> THEN acc
  ELSE FixedFrom(Tail(keys), Put(acc, Head(keys), Str(Head(keys))))

FixedContent(content) == FixedFrom(Keys(content), <<>>)

\* loadTranslations(directory).filter(f => f.type === 'natural'): the names
\* of the files it rewrites.  The directory is loaded again, with the default
\* file type 'auto'.
FixedFiles(c, d, lang) ==
  LET files == loadTranslations(c, d, lang, "auto")
  IN {files[i].name : i \in {j \in DOMAIN files : files[j].type = "natural"}}

\* fixSourceInconsistencies(directory): the disk after it.
fixSourceInconsistencies(c, d, lang) ==
  LET c2 == CacheAfterLoad(c, d, lang, "auto")
  IN [d EXCEPT ![lang] =
        [f \in DOMAIN d[lang] |->
           IF f \in FixedFiles(c, d, lang)
           THEN FixedContent(c2[lang][f])
           ELSE d[lang][f]]]

\* ------------------------------------------------------------ index.ts
sourceLang == "en"

\* getAvailableLanguages(workingDir), in name order
languageFolders == <<"en", "fr", "xx">>

\* languageFolders.filter(f => f !== sourceLang)
targetLanguages == SelectSeq(languageFolders, LAMBDA l : l # sourceLang)

\* translationService.getAvailableLanguages(): the provider knows "xx" not.
availableLanguages == {"en", "fr"}

\* The provider's translation of one string: it marks the text and leaves the
\* separator where it is.
Translated(s) == <<"~">> \o s

\* translationService.translateStrings(items, from, to): the dry-run service
\* reports and returns nothing; a real one answers every submitted key.
translateStrings(service, items) ==
  IF service = "dryRun" THEN <<>>
  ELSE [i \in DOMAIN items |->
          [key |-> items[i].key, translated |-> Str(Translated(items[i].value.s))]]

\* key => key !== file.content[key], over Object.keys(file.content)
InconsistentKeys(content) ==
  SelectSeq(Keys(content), LAMBDA k : Get(content, k) # Str(k))

\* k => typeof file.originalContent[k] === 'string' && k.includes('.')
InvalidKeys(original) ==
  SelectSeq(Keys(original),
            LAMBDA k : Get(original, k).t = "str" /\ Includes(k, "."))

\* NewKeys with the negation of the filter lost
NewKeys_Kept(templateStrings, existingKeys) ==
  SelectSeq(templateStrings, LAMBDA k : Includes(existingKeys, k))

\* templateStrings.filter(key => !existingKeys.includes(key))
NewKeys(templateStrings, existingKeys) ==
  SelectSeq(templateStrings, LAMBDA k : ~Includes(existingKeys, k))

\* .map(key => ({key, value})): the key itself for a natural template, the
\* template's value (an array joined by ' ') for a key-based one
StringsToTranslate(type, content, existingKeys) ==
  LET ks == NewKeys(Keys(content), existingKeys)
  IN [i \in DOMAIN ks |->
        LET v == Get(content, ks[i])
        IN [key |-> ks[i],
            value |-> IF type = "key-based"
                      THEN (IF v.t = "arr" THEN Str(Join(v.a, " ")) ELSE v)
                      ELSE Str(ks[i])]]

\* existingKeys.filter(key => !templateStrings.includes(key))
UnusedStrings(templateStrings, existingKeys) ==
  SelectSeq(existingKeys, LAMBDA k : ~Includes(templateStrings, k))

\* lodash omit(object, keys) on the keys named
Omit(doc, ks) == SelectSeq(doc, LAMBDA e : ~Includes(ks, e.k))

\* translatedStrings.reduce((acc, cur) => ({...acc, [cur.key]: cur.translated}), {})
RECURSIVE ReduceNewKeys(_, _)
ReduceNewKeys(translatedStrings, acc) ==
  IF translatedStrings = <<>> THEN acc
  ELSE ReduceNewKeys(Tail(translatedStrings),
                     Put(acc, Head(translatedStrings).key,
                         Head(translatedStrings).translated))

\* {...base, ...more}
RECURSIVE Spread(_, _)
Spread(base, more) ==
  IF more = <<>> THEN base
  ELSE Spread(Put(base, Head(more).k, Head(more).v), Tail(more))

\* const translatedFile = {...omit(existingTranslations, ...), ...newKeys}
TranslatedFile(existingTranslations, unusedStrings, translatedStrings, del) ==
  Spread(Omit(existingTranslations, IF del THEN unusedStrings ELSE <<>>),
         ReduceNewKeys(translatedStrings, <<>>))

\* What is serialised: flatten.undo of it for a key-based template
WrittenDocument(type, translatedFile) ==
  IF type = "key-based" THEN FlattenUndo(translatedFile) ELSE translatedFile

\* ------------------------------------------------------------- state
VARIABLES
  disk,              \* [language -> [file name -> document]]: the directories
  opts,              \* the command line of the run
  cache,             \* require's module cache of this process
  parsed,            \* history: each cached file as JSON.parse first gave it
  templateFiles,     \* index.ts:92
  insonsistentFiles, \* index.ts:137
  existingFiles,     \* index.ts:227, of the language being translated
  pc, li, fi,        \* where translate() is; language and file loop indices
  run,               \* 1 for the first invocation, 2 for the one after it
  diskAtStart,       \* history: the directories when this run started
  batches,           \* history: the translateStrings calls of this run
  written,           \* history: <<language, file>> of every writeFileSync
  deleted,           \* history: <<language, file>> of every unlinkSync
  last               \* history: the diff and merge of the last file handled

vars == <<disk, opts, cache, parsed, templateFiles, insonsistentFiles,
          existingFiles, pc, li, fi, run, diskAtStart, batches, written,
          deleted, last>>

NoFiles == [f \in {} |-> <<>>]
EmptyCache == [l \in {"en", "fr", "xx"} |-> NoFiles]
NoLast == [on |-> FALSE]

\* The history of what JSON.parse gave: a file keeps its first entry.
ParsedAfterLoad(ps, c, d, lang) ==
  [ps EXCEPT ![lang] =
     [f \in DOMAIN ps[lang] \cup DOMAIN d[lang] |->
        IF f \in DOMAIN c[lang] THEN ps[lang][f] ELSE d[lang][f]]]

\* index.ts:74-126: load the template files with the file type of the run.
LoadTemplates ==
  /\ pc = "start"
  /\ templateFiles' = loadTranslations(cache, disk, sourceLang, opts.fileType)
  /\ cache' = CacheAfterLoad(cache, disk, sourceLang, opts.fileType)
  /\ parsed' = ParsedAfterLoad(parsed, cache, disk, sourceLang)
  /\ pc' = IF ReadDir(disk, sourceLang) = <<>> THEN "error" ELSE "check"
  /\ UNCHANGED <<disk, opts, insonsistentFiles, existingFiles, li, fi, run,
                 diskAtStart, batches, written, deleted, last>>

\* index.ts:139-152: the names of the natural template files with a key that
\* differs from its value
InconsistentFileNames(c, files) ==
  LET hit == SelectSeq(files, LAMBDA f :
               f.type = "natural"
               /\ InconsistentKeys(ContentOf(c, sourceLang, f)) # <<>>)
  IN [i \in DOMAIN hit |-> hit[i].name]

\* index.ts:136-175: report the inconsistent natural files; fix them on -f.
CheckInconsistencies ==
  /\ pc = "check"
  /\ insonsistentFiles' = InconsistentFileNames(cache, templateFiles)
  /\ IF insonsistentFiles' # <<>> /\ opts.fixInconsistencies
     THEN /\ disk' = fixSourceInconsistencies(cache, disk, sourceLang)
          /\ cache' = CacheAfterLoad(cache, disk, sourceLang, "auto")
          /\ written' = written \cup
               {<<sourceLang, f>> : f \in FixedFiles(cache, disk, sourceLang)}
     ELSE UNCHANGED <<disk, cache, written>>
  /\ pc' = "invalid"
  /\ UNCHANGED <<opts, parsed, templateFiles, existingFiles, li, fi, run,
                 diskAtStart, batches, deleted, last>>

\* index.ts:180-193: the key-based template files with an invalid key
InvalidFileNames(c, files) ==
  LET hit == SelectSeq(files, LAMBDA f :
               f.type = "key-based"
               /\ InvalidKeys(OriginalContentOf(c, sourceLang, f)) # <<>>)
  IN [i \in DOMAIN hit |-> hit[i].name]

\* index.ts:177-214: process.exit(1) when a key-based template file has an
\* invalid key.
CheckInvalidKeys ==
  /\ pc = "invalid"
  /\ pc' = IF InvalidFileNames(cache, templateFiles) # <<>> THEN "exit" ELSE "lang"
  /\ li' = 1
  /\ UNCHANGED <<disk, opts, cache, parsed, templateFiles, insonsistentFiles,
                 existingFiles, fi, run, diskAtStart, batches, written,
                 deleted, last>>

\* index.ts:237-240: the existing files whose name no template file has
DeletableFiles(existing, templates) ==
  {existing[i].name : i \in DOMAIN existing} \
  {templates[i].name : i \in DOMAIN templates}

\* index.ts:216-251: the next target language: skipped when the provider does
\* not know it; otherwise its files are loaded and, on -d, those without a
\* template file are unlinked.
NextLanguage ==
  /\ pc = "lang"
  /\ IF li > Len(targetLanguages)
     THEN /\ pc' = "done"
          /\ UNCHANGED <<disk, cache, parsed, existingFiles, li, fi, deleted>>
     ELSE LET language == targetLanguages[li]
              gone == IF opts.deleteUnusedStrings
                      THEN DeletableFiles(
                             loadTranslations(cache, disk, language, opts.fileType),
                             templateFiles)
                      ELSE {}
          IN IF language \notin availableLanguages
             THEN /\ li' = li + 1
                  /\ UNCHANGED <<disk, cache, parsed, existingFiles, pc, fi, deleted>>
             ELSE /\ existingFiles' =
                       loadTranslations(cache, disk, language, opts.fileType)
                  /\ cache' = CacheAfterLoad(cache, disk, language, opts.fileType)
                  /\ parsed' = ParsedAfterLoad(parsed, cache, disk, language)
                  /\ disk' = [disk EXCEPT ![language] =
                               [f \in DOMAIN disk[language] \ gone |->
                                  disk[language][f]]]
                  /\ deleted' = deleted \cup {<<language, f>> : f \in gone}
                  /\ pc' = "file"
                  /\ fi' = 1
                  /\ UNCHANGED li
  /\ UNCHANGED <<opts, templateFiles, insonsistentFiles, run, diskAtStart,
                 batches, written, last>>

\* index.ts:256-258  existingFiles.find(f => f.name === templateFile.name)
HasLanguageFile(existing, name) == \E i \in DOMAIN existing : existing[i].name = name
LanguageFile(existing, name) ==
  existing[CHOOSE i \in DOMAIN existing :
             existing[i].name = name
             /\ \A h \in 1..(i - 1) : existing[h].name # name]

\* index.ts:253-319: one template file for one target language: the diff,
\* the translateStrings call, the merge and the write.
TranslateFile ==
  /\ pc = "file"
  /\ LET language == targetLanguages[li]
         templateFile == templateFiles[fi]
         templateContent == ContentOf(cache, sourceLang, templateFile)
         found == HasLanguageFile(existingFiles, templateFile.name)
         existingTranslations ==
           IF found
           THEN ContentOf(cache, language,
                          LanguageFile(existingFiles, templateFile.name))
           ELSE <<>>
         existingKeys == Keys(existingTranslations)
         templateStrings == Keys(templateContent)
         stringsToTranslate ==
           StringsToTranslate(templateFile.type, templateContent, existingKeys)
         unusedStrings == UnusedStrings(templateStrings, existingKeys)
         translatedStrings == translateStrings(opts.service, stringsToTranslate)
         translatedFile ==
           TranslatedFile(existingTranslations, unusedStrings,
                          translatedStrings, opts.deleteUnusedStrings)
         out == WrittenDocument(templateFile.type, translatedFile)
     IN /\ batches' = Append(batches, [language |-> language,
                                       name |-> templateFile.name,
                                       items |-> stringsToTranslate])
        /\ IF opts.service # "dryRun"
           THEN /\ disk' = [disk EXCEPT ![language] =
                             [f \in DOMAIN disk[language] \cup {templateFile.name} |->
                                IF f = templateFile.name THEN out
                                ELSE disk[language][f]]]
                /\ written' = written \cup {<<language, templateFile.name>>}
           ELSE UNCHANGED <<disk, written>>
        /\ last' = [on |-> TRUE,
                    language |-> language,
                    name |-> templateFile.name,
                    type |-> templateFile.type,
                    found |-> found,
                    before |-> IF templateFile.name \in DOMAIN disk[language]
                               THEN disk[language][templateFile.name] ELSE <<>>,
                    templateStrings |-> templateStrings,
                    existingKeys |-> existingKeys,
                    existingTranslations |-> existingTranslations,
                    stringsToTranslate |-> stringsToTranslate,
                    unusedStrings |-> unusedStrings,
                    translatedStrings |-> translatedStrings,
                    wrote |-> (opts.service # "dryRun")]
  /\ IF fi < Len(templateFiles)
     THEN fi' = fi + 1 /\ UNCHANGED <<pc, li>>
     ELSE fi' = fi /\ pc' = "lang" /\ li' = li + 1
  /\ UNCHANGED <<opts, cache, parsed, templateFiles, insonsistentFiles,
                 existingFiles, run, diskAtStart, deleted>>

\* The same command line again, in a new process, once the run has ended.
Rerun ==
  /\ pc = "done"
  /\ run < MaxRuns
  /\ run' = run + 1
  /\ pc' = "start"
  /\ cache' = EmptyCache
  /\ parsed' = EmptyCache
  /\ templateFiles' = <<>>
  /\ insonsistentFiles' = <<>>
  /\ existingFiles' = <<>>
  /\ li' = 1
  /\ fi' = 1
  /\ diskAtStart' = disk
  /\ batches' = <<>>
  /\ written' = {}
  /\ deleted' = {}
  /\ last' = NoLast
  /\ UNCHANGED <<disk, opts>>

Next ==
  \/ LoadTemplates
  \/ CheckInconsistencies
  \/ CheckInvalidKeys
  \/ NextLanguage
  \/ TranslateFile
  \/ Rerun

\* ------------------------------------------------------------ inputs
KeyT == <<"t">>
KeyDot == <<"a", ".", "b">>
KeySp == <<"b", " ", "c">>
KeyA == <<"a">>
TopKeys == <<KeyT, KeyDot, KeySp, KeyA>>

\* The entries a document may hold: under a plain, a dotted and a spaced key
\* a text, the key itself or an array of two texts; under "a" an object.
Entries ==
  {Entry(k, v) : k \in {KeyT, KeyDot, KeySp},
                 v \in {Str(<<"x">>), Arr(<<(<<"x">>), (<<"y">>)>>)}}
  \cup {Entry(k, Str(k)) : k \in {KeyT, KeyDot, KeySp}}
  \cup {Entry(KeyA, Obj(<<Entry(<<"b">>, Str(<<"x">>))>>))}

RECURSIVE DocsUpTo(_)
DocsUpTo(n) ==
  IF n = 0 THEN {<<>>}
  ELSE LET shorter == DocsUpTo(n - 1)
       IN shorter \cup
          {Append(d, e) : d \in {x \in shorter : Len(x) = n - 1}, e \in Entries}

\* Documents: up to MaxKeys entries with distinct keys, in any order
Docs == {d \in DocsUpTo(MaxKeys) :
           \A i, j \in DOMAIN d : i # j => d[i].k # d[j].k}

Rank(k) == CHOOSE i \in DOMAIN TopKeys : TopKeys[i] = k

\* The documents whose keys come in the order of TopKeys
SortedDocs == {d \in Docs : \A i, j \in DOMAIN d : i < j => Rank(d[i].k) < Rank(d[j].k)}

Options ==
  [deleteUnusedStrings : BOOLEAN,
   fileType : {"auto", "key-based", "natural"},
   fixInconsistencies : BOOLEAN,
   service : {"google-translate", "dryRun"}]

\* A file that may be missing: no document or one
Opt(S) == {<<>>} \cup {<<d>> : d \in S}
Absent == <<>>

\* The directory holding f1, f2, f3 where given
Dir(f1, f2, f3) ==
  [f \in {x \in {"f1", "f2", "f3"} :
            \/ x = "f1" /\ f1 # <<>>
            \/ x = "f2" /\ f2 # <<>>
            \/ x = "f3" /\ f3 # <<>>} |->
     IF f = "f1" THEN f1[1] ELSE IF f = "f2" THEN f2[1] ELSE f3[1]]

Stale == <<Entry(KeyT, Str(<<"x">>))>>

InitRest ==
  /\ cache = EmptyCache
  /\ parsed = EmptyCache
  /\ templateFiles = <<>>
  /\ insonsistentFiles = <<>>
  /\ existingFiles = <<>>
  /\ pc = "start"
  /\ li = 1
  /\ fi = 1
  /\ run = 1
  /\ diskAtStart = disk
  /\ batches = <<>>
  /\ written = {}
  /\ deleted = {}
  /\ last = NoLast

Init ==
  /\ opts \in Options
  /\ \E s1 \in SortedDocs, t1 \in Opt(SortedDocs),
        s2 \in Opt({<<Entry(KeySp, Str(<<"x">>))>>}) :
       disk = [l \in {"en", "fr", "xx"} |->
                 IF l = "en" THEN Dir(<<s1>>, s2, Absent)
                 ELSE IF l = "fr" THEN Dir(t1, Absent, <<Stale>>)
                 ELSE Dir(<<Stale>>, Absent, Absent)]
  /\ InitRest

Spec == Init /\ [][Next]_vars

\* The inputs of the diff: documents in any key order
EntriesDiff ==
  {Entry(KeyT, Str(<<"x">>)), Entry(KeyT, Arr(<<(<<"x">>), (<<"y">>)>>)),
   Entry(KeyDot, Str(<<"x">>)), Entry(KeySp, Str(<<"x">>)),
   Entry(KeyA, Obj(<<Entry(<<"b">>, Str(<<"x">>))>>))}

DocsDiff == {d \in Docs : \A i \in DOMAIN d : d[i] \in EntriesDiff}

InitDiff ==
  /\ opts \in {o \in Options : ~o.fixInconsistencies /\ o.service # "dryRun"}
  /\ \E s1 \in DocsDiff, t1 \in Opt(DocsDiff) :
       disk = [l \in {"en", "fr", "xx"} |->
                 IF l = "en" THEN Dir(<<s1>>, Absent, Absent)
                 ELSE IF l = "fr" THEN Dir(t1, Absent, Absent)
                 ELSE Dir(<<Stale>>, Absent, Absent)]
  /\ InitRest

SpecDiff == InitDiff /\ [][Next]_vars

\* ------------------------------------------------------------ claims
SeqSet(seq) == {seq[i] : i \in DOMAIN seq}

\* The leaves of a file as a template of the given type names them
LeafDoc(type, doc) == IF type = "key-based" THEN FlattenConvert(doc) ELSE doc

BatchKeys(items) == {items[i].key : i \in DOMAIN items}

\* seq holds no element twice and keeps the order its elements have in of
InOrderOf(seq, of) ==
  /\ \A i, j \in DOMAIN seq : i # j => seq[i] # seq[j]
  /\ \A i, j \in DOMAIN seq :
       i < j => \E m, n \in DOMAIN of : m < n /\ of[m] = seq[i] /\ of[n] = seq[j]

\* C1: every key of the existing target file that is also a template key is
\* in the written file with the value it had in the file before the run, and
\* is not in the batch given to translateStrings.
C1_IncrementalMerge ==
  (last.on /\ last.wrote) =>
    LET before == LeafDoc(last.type, last.before)
        after == LeafDoc(last.type, disk[last.language][last.name])
    IN \A k \in KeySet(before) \cap SeqSet(last.templateStrings) :
         /\ k \in KeySet(after)
         /\ Get(after, k) = Get(before, k)
         /\ k \notin BatchKeys(last.stringsToTranslate)

\* C2: the keys to translate are the template keys the target lacks, in
\* template order; the unused keys are the target keys the template lacks, in
\* target order; a missing target file counts as no keys.
C2_DiffComplete ==
  last.on =>
    LET T == SeqSet(last.templateStrings)
        E == SeqSet(last.existingKeys)
        todo == [i \in DOMAIN last.stringsToTranslate |->
                   last.stringsToTranslate[i].key]
    IN /\ SeqSet(todo) = T \ E
       /\ SeqSet(last.unusedStrings) = E \ T
       /\ InOrderOf(todo, last.templateStrings)
       /\ InOrderOf(last.unusedStrings, last.existingKeys)
       /\ SeqSet(todo) \cup (T \cap E) = T
       /\ SeqSet(last.unusedStrings) \cup (T \cap E) = E
       /\ SeqSet(todo) \cap (T \cap E) = {}
       /\ (last.name \notin DOMAIN diskAtStart[last.language]
             => E = {} /\ todo = last.templateStrings)
       /\ (last.name \in DOMAIN diskAtStart[last.language]
             => last.existingKeys =
                  Keys(IF LoadedType(diskAtStart[last.language][last.name],
                                     opts.fileType) = "key-based"
                       THEN FlattenConvert(arrayToString(
                              diskAtStart[last.language][last.name]))
                       ELSE diskAtStart[last.language][last.name]))

\* C2 witness: a diff with a key to translate, a shared key and an unused key
C2_Witness ==
  /\ last.on
  /\ last.stringsToTranslate # <<>>
  /\ last.unusedStrings # <<>>
  /\ SeqSet(last.templateStrings) \cap SeqSet(last.existingKeys) # {}

\* C3: without -d every key of the target file that the template lacks keeps
\* its value and no target file is deleted; with -d the written file holds
\* no unused key and exactly the template's keys.
C3_UnusedOnlyOnRequest ==
  /\ (~opts.deleteUnusedStrings => deleted = {})
  /\ (last.on /\ last.wrote) =>
       LET before == LeafDoc(last.type, last.before)
           after == LeafDoc(last.type, disk[last.language][last.name])
       IN IF opts.deleteUnusedStrings
          THEN /\ KeySet(after) \cap SeqSet(last.unusedStrings) = {}
               /\ KeySet(after) = SeqSet(last.templateStrings)
          ELSE \A k \in KeySet(before) \ SeqSet(last.templateStrings) :
                 k \in KeySet(after) /\ Get(after, k) = Get(before, k)

\* C4: under the dry-run service no file of any language directory is
\* written, created, changed or removed.
C4_DryRunWritesNothing ==
  opts.service = "dryRun" => disk = diskAtStart /\ written = {} /\ deleted = {}

\* C5: in the run after a completed run nothing is submitted for translation
\* and the directories stay as they were.
C5_IdempotentRerun ==
  (run = 2 /\ opts.service # "dryRun") =>
    /\ disk = diskAtStart
    /\ \A i \in DOMAIN batches : batches[i].items = <<>>

\* C6: once the fix step has run, every source file reported inconsistent
\* maps each of its keys to itself on disk; without -f no source file is
\* written.
C6_FixPostcondition ==
  /\ (pc \in {"invalid", "lang", "file", "done", "exit"}
      /\ opts.fixInconsistencies) =>
       \A i \in DOMAIN insonsistentFiles :
         InconsistentKeys(disk[sourceLang][insonsistentFiles[i]]) = <<>>
  /\ ~opts.fixInconsistencies => disk[sourceLang] = diskAtStart[sourceLang]

\* C7: a top-level array of n strings in a key-based template is an array of
\* n elements in the written target file.
C7_ArraySurvives ==
  (last.on /\ last.wrote /\ last.type = "key-based") =>
    LET template == parsed[sourceLang][last.name]
        out == disk[last.language][last.name]
    IN \A i \in DOMAIN template :
         (template[i].v.t = "arr"
          /\ template[i].k \in BatchKeys(last.stringsToTranslate)) =>
           /\ template[i].k \in KeySet(out)
           /\ Get(out, template[i].k).t = "arr"
           /\ Len(Get(out, template[i].k).a) = Len(template[i].v.a)

\* C8: originalContent of every template file record is the document as it
\* was parsed.
C8_OriginalContentUnmodified ==
  \A i \in DOMAIN templateFiles :
    OriginalContentOf(cache, sourceLang, templateFiles[i])
      = parsed[sourceLang][templateFiles[i].name]

\* Some key-based template file has a top-level string entry, as parsed,
\* whose key holds "."
ParsedInvalid ==
  \E i \in DOMAIN templateFiles :
    /\ templateFiles[i].type = "key-based"
    /\ InvalidKeys(parsed[sourceLang][templateFiles[i].name]) # <<>>

\* C9: the run halts on the invalid-key check exactly when ParsedInvalid, and
\* then before any translateStrings call and any change to a target file.
C9_InvalidKeyGate ==
  /\ pc = "exit" => ParsedInvalid
  /\ pc \in {"lang", "file", "done"} => ~ParsedInvalid
  /\ pc = "exit" =>
       /\ batches = <<>>
       /\ deleted = {}
       /\ \A w \in written : w[1] = sourceLang

\* C10: under file type auto a template file loaded as key-based is never
\* rewritten by the fix step.
C10_StableClassification ==
  opts.fileType = "auto" =>
    \A i \in DOMAIN templateFiles :
      templateFiles[i].type = "key-based" =>
        <<sourceLang, templateFiles[i].name>> \notin written
====
